---- MODULE Spec2Model ----
(***************************************************************************)
(* Athletic Store API (src/main.py): the product endpoints (list, create,  *)
(* seed), the diagnostics endpoint, the startup hook and the serializer,   *)
(* over a document store holding the "product" collection.                 *)
(*                                                                         *)
(* Three specifications share the variables:                               *)
(*   Spec           requests served one after another, after startup       *)
(*   SpecSerialize  _serialize_product applied to arbitrary records        *)
(*   SpecRace       seed invocations interleaved at their storage calls    *)
(***************************************************************************)
EXTENDS Integers, Sequences, FiniteSets, TLC

VARIABLES
    db,         \* TRUE iff the connection handle `db` is not None (fixed at import)
    products,   \* the "product" collection, in storage order: a sequence of documents
    nextId,     \* the storage's id generator: the next identifier it hands out
    pc,         \* "boot" before the startup hook has run, then "serving" (or "crashed")
    hook,       \* what the startup hook did (a record, see HookIdle)
    req,        \* the last request served: its endpoint and inputs (see NoReq)
    resp,       \* the response of the last request served (a record, see NoResp)
    creates,    \* how many products POST /api/products has stored
    arg,        \* SpecSerialize: the caller's record, as it is after the call
    ret,        \* SpecSerialize: what _serialize_product returned
    seeders     \* SpecRace: each seed invocation's position and locals

vars == <<db, products, nextId, pc, hook, req, resp, creates, arg, ret, seeders>>

----------------------------------------------------------------------------
(* Python values. Every value is a record of one shape, so that any two can *)
(* be compared: t is the type tag, n and k carry numbers, s carries text.   *)
(* A float is n / 10^k with k as small as possible.                         *)

PyNone == [t |-> "none", n |-> 0, k |-> 0, s |-> <<>>]
PyBool(b) == [t |-> "bool", n |-> IF b THEN 1 ELSE 0, k |-> 0, s |-> <<>>]
PyInt(i) == [t |-> "int", n |-> i, k |-> 0, s |-> <<>>]
PyStr(chars) == [t |-> "str", n |-> 0, k |-> 0, s |-> chars]
PyOid(i) == [t |-> "oid", n |-> i, k |-> 0, s |-> <<>>]

RECURSIVE Normalize(_, _)
Normalize(num, scale) ==
    IF scale > 0 /\ num % 10 = 0 THEN Normalize(num \div 10, scale - 1)
    ELSE [n |-> num, k |-> scale]

PyFloat(num, scale) ==
    LET z == Normalize(num, scale)
    IN  [t |-> "float", n |-> z.n, k |-> z.k, s |-> <<>>]

Digits == <<"0", "1", "2", "3", "4", "5", "6", "7", "8", "9">>
HexDigits == Digits \o <<"a", "b", "c", "d", "e", "f">>
DigitChars == {Digits[i] : i \in 1..Len(Digits)}
DigitVal(c) == (CHOOSE i \in 1..Len(Digits) : Digits[i] = c) - 1

AllDigits(cs) == \A i \in 1..Len(cs) : cs[i] \in DigitChars

RECURSIVE DigitsVal(_)
DigitsVal(cs) ==
    IF cs = <<>> THEN 0
    ELSE 10 * DigitsVal(SubSeq(cs, 1, Len(cs) - 1)) + DigitVal(cs[Len(cs)])

RECURSIVE HexOf(_)
HexOf(i) ==
    IF i < Len(HexDigits) THEN <<HexDigits[i + 1]>>
    ELSE HexOf(i \div Len(HexDigits)) \o <<HexDigits[(i % Len(HexDigits)) + 1]>>

(* str(x) for the values an _id takes: an ObjectId prints as its hex digits, *)
(* an int as its decimal digits, text as itself.                             *)
RECURSIVE DecOf(_)
DecOf(i) ==
    IF i < Len(Digits) THEN <<Digits[i + 1]>>
    ELSE DecOf(i \div Len(Digits)) \o <<Digits[(i % Len(Digits)) + 1]>>

str(v) ==
    CASE v.t = "oid" -> PyStr(HexOf(v.n))
      [] v.t = "int" -> PyStr(DecOf(v.n))
      [] v.t = "str" -> v
      [] OTHER -> PyStr(<<"?">>)

(* float(text): an optional sign, then digits with at most one point and at *)
(* least one digit; anything else over the alphabet of FloatChars fails.    *)
ParseFloat(cs) ==
    LET signed == Len(cs) > 0 /\ cs[1] \in {"-", "+"}
        body == IF signed THEN Tail(cs) ELSE cs
        dots == {i \in 1..Len(body) : body[i] = "."}
        p == IF dots = {} THEN Len(body) + 1 ELSE CHOOSE i \in dots : \A j \in dots : i <= j
        whole == SubSeq(body, 1, p - 1)
        frac == SubSeq(body, p + 1, Len(body))
        good == AllDigits(whole) /\ AllDigits(frac) /\ Len(whole) + Len(frac) >= 1
        mag == DigitsVal(whole \o frac)
    IN  IF good
        THEN [ok |-> TRUE,
              val |-> PyFloat(IF signed /\ cs[1] = "-" THEN 0 - mag ELSE mag, Len(frac))]
        ELSE [ok |-> FALSE, val |-> PyNone]

(* float(v): [ok, val]; ok = FALSE stands for the TypeError or ValueError. *)
float(v) ==
    CASE v.t = "float" -> [ok |-> TRUE, val |-> v]
      [] v.t \in {"int", "bool"} -> [ok |-> TRUE, val |-> PyFloat(v.n, 0)]
      [] v.t = "str" -> ParseFloat(v.s)
      [] OTHER -> [ok |-> FALSE, val |-> PyNone]

----------------------------------------------------------------------------
(* Records (dicts) are functions from the keys present to values. An       *)
(* optional record, as _serialize_product takes it, is [none, d]: None, or  *)
(* the dict d.                                                              *)

EmptyDict == [key \in {} |-> PyNone]
NoneDoc == [none |-> TRUE, d |-> EmptyDict]
Dict(d) == [none |-> FALSE, d |-> d]

\* `not doc`: None and the empty dict are falsy
Falsy(doc) == doc.none \/ DOMAIN doc.d = {}

\* lines 81-82: doc["id"] = str(doc.pop("_id")) when doc.get("_id") is not None
RenameId(d) ==
    IF "_id" \in DOMAIN d /\ d["_id"] # PyNone
    THEN [key \in (DOMAIN d \ {"_id"}) \cup {"id"} |->
             IF key = "id" THEN str(d["_id"]) ELSE d[key]]
    ELSE d

\* lines 84-88: price becomes float(price); a failed coercion is passed over
CoercePrice(d) ==
    IF "price" \in DOMAIN d
    THEN LET f == float(d["price"])
         IN  [d EXCEPT !["price"] = IF f.ok THEN f.val ELSE @]
    ELSE d

(* The call _serialize_product(doc): ret is the value returned, arg is the  *)
(* caller's record after the call (line 80 copies it before any write),     *)
(* raised says whether an exception left the function.                      *)
SerializeInPlace(doc) ==
    IF Falsy(doc) THEN [ret |-> doc, arg |-> doc, raised |-> FALSE]
    ELSE [ret |-> Dict(CoercePrice(RenameId(doc.d))),
          arg |-> Dict(CoercePrice(RenameId(doc.d))),
          raised |-> FALSE]

_serialize_product(doc) ==
    IF Falsy(doc) THEN [ret |-> doc, arg |-> doc, raised |-> FALSE]
    ELSE [ret |-> Dict(CoercePrice(RenameId(doc.d))),
          arg |-> doc,
          raised |-> FALSE]

----------------------------------------------------------------------------
(* The document store behind `database` (db, create_document,               *)
(* get_documents): the "product" collection is a sequence in storage order, *)
(* and identifiers are handed out by a generator that never repeats one.    *)

Text(word) == PyStr(<<word>>)
EmptyStr == PyStr(<<>>)

Put(d, key, v) == [x \in DOMAIN d \cup {key} |-> IF x = key THEN v ELSE d[x]]

\* insert(collection, record) -> id: one new document, a fresh identifier
create_document(store, data) ==
    [products |-> Append(store.products, Put(data, "_id", PyOid(store.nextId))),
     nextId |-> store.nextId + 1,
     id |-> str(PyOid(store.nextId))]

Matches(d, filt) == \A key \in DOMAIN filt : key \in DOMAIN d /\ d[key] = filt[key]

RECURSIVE Select(_, _)
Select(docs, filt) ==
    IF docs = <<>> THEN <<>>
    ELSE IF Matches(Head(docs), filt) THEN <<Head(docs)>> \o Select(Tail(docs), filt)
    ELSE Select(Tail(docs), filt)

Take(seq, count) == SubSeq(seq, 1, IF Len(seq) < count THEN Len(seq) ELSE count)

\* query(collection, filter, limit): up to limit matching documents, storage order
get_documents(docs, filt, limit) == Take(Select(docs, filt), limit)

\* db["product"].count_documents({})
count_documents(docs) == Len(docs)

----------------------------------------------------------------------------
(* Responses. One record shape for every endpoint; the fields an endpoint  *)
(* does not set keep the values of NoResp. ops counts the storage           *)
(* operations (count, query, insert) the handler called.                    *)

NoReport ==
    [backend |-> "", database |-> [text |-> "", err |-> <<>>], database_url |-> "",
     database_name |-> "", connection_status |-> "", collections |-> <<>>]

NoResp ==
    [op |-> "none", status |-> 0, detail |-> "", id |-> PyNone, seeded |-> FALSE,
     count |-> 0, message |-> "", items |-> <<>>, report |-> NoReport, ops |-> 0]

DbNotConfigured == "Database not configured"

\* raise HTTPException(status_code=500, detail="Database not configured")
NotConfigured(op, store) ==
    [products |-> store.products, nextId |-> store.nextId, exc |-> "HTTPException",
     resp |-> [NoResp EXCEPT !.op = op, !.status = 500, !.detail = DbNotConfigured]]

\* a storage operation threw: the exception leaves the handler, and the
\* framework answers 500 Internal Server Error
StorageFailed(op, store, ops) ==
    [products |-> store.products, nextId |-> store.nextId, exc |-> "StorageError",
     resp |-> [NoResp EXCEPT !.op = op, !.status = 500,
                             !.detail = "Internal Server Error", !.ops = ops]]

Returned(store, r) ==
    [products |-> store.products, nextId |-> store.nextId, exc |-> "none", resp |-> r]

----------------------------------------------------------------------------
(* GET /api/products                                                        *)

DefaultLimit == 50

Truthy(v) == v # PyNone /\ v # EmptyStr

\* line 96: filt = {"category": category} if category else {}
ListFilterNone(category) == EmptyDict

ListFilter(category) ==
    IF Truthy(category) THEN [key \in {"category"} |-> category] ELSE EmptyDict

\* line 98: [_serialize_product(d) for d in docs]
SerializeRaw(docs) == docs

SerializeAll(docs) == [i \in 1..Len(docs) |-> _serialize_product(Dict(docs[i])).ret.d]

\* fault = 1: the query throws
list_productsUnguarded(dbc, store, category, limit, fault) ==
    IF fault = 1 THEN StorageFailed("list", store, 1)
    ELSE Returned(store,
             [NoResp EXCEPT !.op = "list", !.status = 200, !.ops = 1,
                 !.items = SerializeAll(
                     get_documents(store.products, ListFilter(category), limit))])

list_products(dbc, store, category, limit, fault) ==
    IF ~dbc THEN NotConfigured("list", store)
    ELSE IF fault = 1 THEN StorageFailed("list", store, 1)
    ELSE Returned(store,
             [NoResp EXCEPT !.op = "list", !.status = 200, !.ops = 1,
                 !.items = SerializeAll(
                     get_documents(store.products, ListFilter(category), limit))])

----------------------------------------------------------------------------
(* POST /api/products                                                       *)

\* class ProductIn: title, price (ge=0) and category are required;
\* description, in_stock and image_url take their defaults
Required == {"title", "price", "category"}

Default(key) == IF key = "in_stock" THEN PyBool(TRUE) ELSE PyNone

ProductFields == Required \cup {"description", "in_stock", "image_url"}

ValidNoRangeCheck(body) ==
    /\ Required \subseteq DOMAIN body
    /\ body["title"].t = "str"
    /\ body["category"].t = "str"
    /\ body["price"].t \in {"int", "float"}

Valid(body) ==
    /\ Required \subseteq DOMAIN body
    /\ body["title"].t = "str"
    /\ body["category"].t = "str"
    /\ body["price"].t \in {"int", "float"}
    /\ float(body["price"]).val.n >= 0

\* the validated model, as a dict: price as a float, defaults filled in
ProductIn(body) ==
    [key \in ProductFields |->
        IF key = "price" THEN float(body[key]).val
        ELSE IF key \in DOMAIN body THEN body[key]
        ELSE Default(key)]

\* fault = 1: the insert throws. A body that fails validation is answered
\* 422 by the framework, before the handler is entered.
create_product(dbc, store, body, fault) ==
    IF ~Valid(body)
    THEN [products |-> store.products, nextId |-> store.nextId, exc |-> "none",
          resp |-> [NoResp EXCEPT !.op = "create", !.status = 422,
                                  !.detail = "validation error"]]
    ELSE IF ~dbc THEN NotConfigured("create", store)
    ELSE IF fault = 1 THEN StorageFailed("create", store, 1)
    ELSE LET done == create_document(store, ProductIn(body))
         IN  Returned(done,
                 [NoResp EXCEPT !.op = "create", !.status = 201, !.ops = 1,
                                !.id = done.id])

----------------------------------------------------------------------------
(* POST /api/seed                                                           *)

Sample(title, description, price, category, image) ==
    [key \in ProductFields |->
        CASE key = "title" -> Text(title)
          [] key = "description" -> Text(description)
          [] key = "price" -> price
          [] key = "category" -> Text(category)
          [] key = "in_stock" -> PyBool(TRUE)
          [] OTHER -> Text(image)]

\* lines 117-150 (descriptions and image URLs abridged)
samplesShort ==
    <<Sample("AirSwift Runner", "Lightweight running shoes", PyFloat(12999, 2),
             "Running", "photo-1542291026-7eec264c27ff"),
      Sample("CourtPro 2", "Classic court silhouette", PyFloat(99, 0),
             "Lifestyle", "photo-1543508282-6319a3e2621f"),
      Sample("TrailForce GTX", "All-terrain traction", PyFloat(1495, 1),
             "Trail", "photo-1542291026-8c1f1a8a261c")>>

samples ==
    <<Sample("AirSwift Runner", "Lightweight running shoes", PyFloat(12999, 2),
             "Running", "photo-1542291026-7eec264c27ff"),
      Sample("CourtPro 2", "Classic court silhouette", PyFloat(99, 0),
             "Lifestyle", "photo-1543508282-6319a3e2621f"),
      Sample("TrailForce GTX", "All-terrain traction", PyFloat(1495, 1),
             "Trail", "photo-1542291026-8c1f1a8a261c"),
      Sample("Flex Studio", "Versatile training shoes", PyFloat(119, 0),
             "Training", "photo-1542291026-94d8a1b13972")>>

\* lines 152-153, the first `upto` samples: for s in samples: create_document("product", s)
RECURSIVE InsertSamples(_, _)
InsertSamples(store, upto) ==
    IF upto = 0 THEN [products |-> store.products, nextId |-> store.nextId]
    ELSE LET before == InsertSamples(store, upto - 1)
             done == create_document(before, samples[upto])
         IN  [products |-> done.products, nextId |-> done.nextId]

\* line 114: if existing > 0: report "not seeded"
AlreadySeededIfMany(existing) == existing > 1

AlreadySeeded(existing) == existing > 0

(* fault = 1: the count throws; fault = 1 + i: the i-th insert throws, after *)
(* the i - 1 before it were stored; any other fault: no storage failure.     *)
seed_productsReset(dbc, store, fault) ==
    IF ~dbc THEN NotConfigured("seed", store)
    ELSE IF fault = 1 THEN StorageFailed("seed", store, 1)
    ELSE Returned(InsertSamples([products |-> <<>>, nextId |-> store.nextId],
                                Len(samples)),
             [NoResp EXCEPT !.op = "seed", !.status = 200, !.ops = 1 + Len(samples),
                            !.seeded = TRUE, !.count = Len(samples)])

seed_products(dbc, store, fault) ==
    IF ~dbc THEN NotConfigured("seed", store)
    ELSE IF fault = 1 THEN StorageFailed("seed", store, 1)
    ELSE IF AlreadySeeded(count_documents(store.products))
    THEN Returned(store,
             [NoResp EXCEPT !.op = "seed", !.status = 200, !.ops = 1,
                            !.message = "Products already exist"])
    ELSE IF fault \in 2..(Len(samples) + 1)
    THEN StorageFailed("seed", InsertSamples(store, fault - 2), fault)
    ELSE Returned(InsertSamples(store, Len(samples)),
             [NoResp EXCEPT !.op = "seed", !.status = 200, !.ops = 1 + Len(samples),
                            !.seeded = TRUE, !.count = Len(samples)])

----------------------------------------------------------------------------
(* The startup hook                                                         *)

HookIdle == [ran |-> FALSE, counted |-> FALSE, seed_called |-> FALSE,
             caught |-> "none", propagated |-> "none"]

\* line 162: except Exception
CatchesOnlyHTTPException(exc) == exc = "HTTPException"

Catches(exc) == exc \in {"HTTPException", "StorageError"}

(* fault = 1: the hook's own count throws; fault = 1 + j: the j-th storage  *)
(* operation of the seed call throws. raised is the exception the try body  *)
(* ends with; what the except clause does not catch leaves the hook.        *)
_ensure_seed(dbc, store, fault) ==
    LET counts == dbc
        count_failed == counts /\ fault = 1
        calls_seed == counts /\ ~count_failed /\ count_documents(store.products) = 0
        seeded == seed_products(dbc, store, IF fault > 1 THEN fault - 1 ELSE 0)
        raised == IF count_failed THEN "StorageError"
                  ELSE IF calls_seed THEN seeded.exc ELSE "none"
        after == IF calls_seed THEN seeded ELSE Returned(store, NoResp)
    IN  [products |-> after.products, nextId |-> after.nextId,
         hook |-> [ran |-> TRUE, counted |-> counts, seed_called |-> calls_seed,
                   caught |-> IF Catches(raised) THEN raised ELSE "none",
                   propagated |-> IF Catches(raised) THEN "none" ELSE raised]]

----------------------------------------------------------------------------
(* GET /test                                                                *)

CollectionsShown == 10
ErrorChars == 50

Field(text) == [text |-> text, err |-> <<>>]

\* line 64, the else branch of `if db is not None`
NotInitializedKeepsDefault(r) == r

NotInitialized(r) == [r EXCEPT !.database = Field("Available but not initialized")]

(* introspection is what db.list_collection_names() does: [ok, names] or,   *)
(* with ok = FALSE, the exception's message msg. url_set and name_set say   *)
(* whether DATABASE_URL and DATABASE_NAME are in the environment.           *)
test_database(dbc, introspection, url_set, name_set) ==
    LET r0 == [backend |-> "Running", database |-> Field("Not Available"),
               database_url |-> "None", database_name |-> "None",
               connection_status |-> "Not Connected", collections |-> <<>>]
        r1 == [r0 EXCEPT !.database = Field("Available"),
                         !.database_url = "Configured",
                         !.database_name = "db.name",
                         !.connection_status = "Connected"]
        r2 == IF introspection.ok
              THEN [r1 EXCEPT !.collections = Take(introspection.names, CollectionsShown),
                              !.database = Field("Connected & Working")]
              ELSE [r1 EXCEPT !.database = [text |-> "Connected but Error: ",
                                            err |-> Take(introspection.msg, ErrorChars)]]
        r3 == IF dbc THEN r2 ELSE NotInitialized(r0)
        r4 == [r3 EXCEPT !.database_url = IF url_set THEN "Set" ELSE "Not Set",
                         !.database_name = IF name_set THEN "Set" ELSE "Not Set"]
    IN  [NoResp EXCEPT !.op = "test", !.status = 200, !.report = r4]

----------------------------------------------------------------------------
(* Spec: the process starts (the startup hook runs), then serves requests  *)
(* one after another. Storage operations may throw (the fault inputs).      *)

MaxCreates == 2

Store == [products |-> products, nextId |-> nextId]

\* a collection of n documents left by earlier runs, with identifiers 1..n
PrePopulated(n) ==
    [i \in 1..n |-> Put(samples[((i - 1) % Len(samples)) + 1], "_id", PyOid(i))]

\* one document written by hand: no description, a price kept as text
Legacy ==
    <<[key \in {"_id", "title", "price", "category"} |->
          CASE key = "_id" -> PyOid(1)
            [] key = "title" -> Text("Old Boot")
            [] key = "price" -> PyStr(<<"1", "2", ".", "5">>)
            [] OTHER -> Text("Trail")]>>

InitialCollections ==
    {PrePopulated(n) : n \in {0, DefaultLimit - 1, DefaultLimit}} \cup {Legacy}

NoReq == [op |-> "none", body |-> EmptyDict, category |-> PyNone, limit |-> 0,
          fault |-> 0, introspection_ok |-> TRUE]

Idle ==
    /\ arg = NoneDoc
    /\ ret = NoneDoc
    /\ seeders = <<>>

Init ==
    /\ db \in BOOLEAN
    /\ products \in (IF db THEN InitialCollections ELSE {<<>>})
    /\ nextId = Len(products) + 1
    /\ pc = "boot"
    /\ hook = HookIdle
    /\ req = NoReq
    /\ resp = NoResp
    /\ creates = 0
    /\ Idle

\* @app.on_event("startup"): requests are served once the hook has returned
Startup ==
    /\ pc = "boot"
    /\ \E fault \in 0..(Len(samples) + 2) :
          LET o == _ensure_seed(db, Store, fault)
          IN  /\ products' = o.products
              /\ nextId' = o.nextId
              /\ hook' = o.hook
              /\ pc' = IF o.hook.propagated = "none" THEN "serving" ELSE "crashed"
    /\ UNCHANGED <<db, req, resp, creates, arg, ret, seeders>>

Answer(o) ==
    /\ products' = o.products
    /\ nextId' = o.nextId
    /\ resp' = o.resp

Categories == {PyNone, EmptyStr, Text("Running")}
Limits == {2, DefaultLimit}

List ==
    /\ pc = "serving"
    /\ \E category \in Categories, limit \in Limits, fault \in 0..1 :
          /\ req' = [NoReq EXCEPT !.op = "list", !.category = category,
                                  !.limit = limit, !.fault = fault]
          /\ Answer(list_products(db, Store, category, limit, fault))
    /\ UNCHANGED <<db, pc, hook, creates, arg, ret, seeders>>

Missing == [t |-> "missing", n |-> 0, k |-> 0, s |-> <<>>]

Body(title, price, category) ==
    LET given == [key \in Required |->
                     CASE key = "title" -> title
                       [] key = "price" -> price
                       [] OTHER -> category]
    IN  [key \in {x \in Required : given[x] # Missing} |-> given[key]]

\* request bodies: two that pass validation (an integer and a fractional
\* price), and bodies with a negative price or a required field missing
Bodies ==
    {Body(Text("Shoe"), PyInt(5), Text("Running")),
     Body(Text("Shoe"), PyFloat(125, 1), EmptyStr),
     Body(Text("Shoe"), PyInt(0 - 1), Text("Running")),
     Body(Text("Shoe"), PyFloat(0 - 5, 1), Text("Running")),
     Body(Missing, PyInt(5), Text("Running")),
     Body(Text("Shoe"), Missing, Text("Running")),
     Body(Text("Shoe"), PyInt(5), Missing),
     Body(Missing, Missing, Missing)}

Create ==
    /\ pc = "serving"
    /\ \E body \in Bodies, fault \in 0..1 :
          LET o == create_product(db, Store, body, fault)
          IN  /\ Len(o.products) > Len(products) => creates < MaxCreates
              /\ req' = [NoReq EXCEPT !.op = "create", !.body = body, !.fault = fault]
              /\ creates' = creates + (Len(o.products) - Len(products))
              /\ Answer(o)
    /\ UNCHANGED <<db, pc, hook, arg, ret, seeders>>

Seed ==
    /\ pc = "serving"
    /\ \E fault \in 0..(Len(samples) + 1) :
          /\ req' = [NoReq EXCEPT !.op = "seed", !.fault = fault]
          /\ Answer(seed_products(db, Store, fault))
    /\ UNCHANGED <<db, pc, hook, creates, arg, ret, seeders>>

\* what db.list_collection_names() may do: the names of the store's
\* collections ("product" once it holds a document, and n others), or throw
Names(n) ==
    (IF products = <<>> THEN <<>> ELSE <<"product">>) \o [i \in 1..n |-> ToString(i)]

Message(n) == [i \in 1..n |-> "x"]

Introspections ==
    {[ok |-> TRUE, names |-> Names(n), msg |-> <<>>] : n \in {0, CollectionsShown + 1}}
    \cup {[ok |-> FALSE, names |-> <<>>, msg |-> Message(n)] : n \in {3, ErrorChars + 1}}

Diagnostics ==
    /\ pc = "serving"
    /\ \E introspection \in Introspections, url_set \in BOOLEAN, name_set \in BOOLEAN :
          /\ req' = [NoReq EXCEPT !.op = "test", !.introspection_ok = introspection.ok]
          /\ resp' = test_database(db, introspection, url_set, name_set)
    /\ UNCHANGED <<db, products, nextId, pc, hook, creates, arg, ret, seeders>>

Next == Startup \/ List \/ Create \/ Seed \/ Diagnostics

Spec == Init /\ [][Next]_vars

----------------------------------------------------------------------------
(* SpecSerialize: _serialize_product called once on a record drawn from    *)
(* Records. pc goes from "call" to "returned" (or "raised").                *)

MaxStrLen == 3

FloatChars == {"1", "5", ".", "a", "-"}

RECURSIVE Strings(_)
Strings(len) ==
    IF len = 0 THEN {<<>>}
    ELSE Strings(len - 1) \cup
         {Append(cs, c) : cs \in {x \in Strings(len - 1) : Len(x) = len - 1}, c \in FloatChars}

PriceTexts == Strings(MaxStrLen) \cup {<<"1", "2", ".", "5">>, <<"a", "b", "c">>}

Record(id_, id, price, title) ==
    LET given == [key \in {"_id", "id", "price", "title"} |->
                     CASE key = "_id" -> id_
                       [] key = "id" -> id
                       [] key = "price" -> price
                       [] OTHER -> title]
    IN  [key \in {x \in DOMAIN given : given[x] # Missing} |-> given[key]]

Records ==
    {NoneDoc} \cup
    {Dict(Record(id_, id, price, title)) :
        id_ \in {Missing, PyNone, PyOid(26), PyInt(7)},
        id \in {Missing, Text("old")},
        price \in {Missing, PyNone, PyInt(3), PyBool(TRUE), PyFloat(125, 1)}
                 \cup {PyStr(cs) : cs \in PriceTexts},
        title \in {Missing, Text("Shoe")}}

InitSerialize ==
    /\ arg \in Records
    /\ ret = NoneDoc
    /\ pc = "call"
    /\ db = FALSE
    /\ products = <<>>
    /\ nextId = 1
    /\ hook = HookIdle
    /\ req = NoReq
    /\ resp = NoResp
    /\ creates = 0
    /\ seeders = <<>>

Serialize ==
    /\ pc = "call"
    /\ LET o == _serialize_product(arg)
       IN  /\ arg' = o.arg
           /\ ret' = o.ret
           /\ pc' = IF o.raised THEN "raised" ELSE "returned"
    /\ UNCHANGED <<db, products, nextId, hook, req, resp, creates, seeders>>

SpecSerialize == InitSerialize /\ [][Serialize]_vars

----------------------------------------------------------------------------
(* SpecRace: seed invocations that overlap. Each invocation is the startup *)
(* hook of a server process or a POST /api/seed request; sync handlers run  *)
(* on worker threads, so invocations interleave at their storage calls.     *)
(* Storage operations succeed here.                                         *)

MaxSeeders == 2

Seeders == 1..MaxSeeders

SeederIdle(kind) ==
    [kind |-> kind, at |-> "idle", existing |-> 0, i |-> 0, resp |-> NoResp]

InitRace ==
    /\ db \in BOOLEAN
    /\ products \in (IF db THEN {<<>>, Legacy} ELSE {<<>>})
    /\ nextId = Len(products) + 1
    /\ seeders \in [Seeders -> {SeederIdle(kind) : kind \in {"hook", "request"}}]
    /\ pc = "serving"
    /\ hook = HookIdle
    /\ req = NoReq
    /\ resp = NoResp
    /\ creates = 0
    /\ arg = NoneDoc
    /\ ret = NoneDoc

\* line 160: if db is not None and db["product"].count_documents({}) == 0
HookCheck(p) ==
    /\ seeders[p].kind = "hook"
    /\ seeders[p].at = "idle"
    /\ seeders' = [seeders EXCEPT ![p].at =
                      IF db /\ count_documents(products) = 0 THEN "enter" ELSE "done"]
    /\ UNCHANGED <<db, products, nextId, pc, hook, req, resp, creates, arg, ret>>

\* lines 111-115: the configuration check, the count and the early return
SeedCount(p) ==
    /\ \/ seeders[p].kind = "request" /\ seeders[p].at = "idle"
       \/ seeders[p].kind = "hook" /\ seeders[p].at = "enter"
    /\ LET existing == count_documents(products)
       IN  seeders' = [seeders EXCEPT ![p] =
               IF ~db
               THEN [@ EXCEPT !.at = "done", !.resp = NotConfigured("seed", Store).resp]
               ELSE IF AlreadySeeded(existing)
               THEN [@ EXCEPT !.at = "done", !.existing = existing,
                              !.resp = seed_products(db, Store, 0).resp]
               ELSE [@ EXCEPT !.at = "insert", !.existing = existing, !.i = 1]]
    /\ UNCHANGED <<db, products, nextId, pc, hook, req, resp, creates, arg, ret>>

\* lines 152-154: one turn of the loop; after the last sample, the return
SeedInsert(p) ==
    /\ seeders[p].at = "insert"
    /\ LET done == create_document(Store, samples[seeders[p].i])
           last == seeders[p].i = Len(samples)
       IN  /\ products' = done.products
           /\ nextId' = done.nextId
           /\ seeders' = [seeders EXCEPT ![p] =
                  IF last
                  THEN [@ EXCEPT !.at = "done", !.i = @ + 1,
                          !.resp = [NoResp EXCEPT !.op = "seed", !.status = 200,
                                       !.ops = 1 + Len(samples), !.seeded = TRUE,
                                       !.count = Len(samples)]]
                  ELSE [@ EXCEPT !.i = @ + 1]]
    /\ UNCHANGED <<db, pc, hook, req, resp, creates, arg, ret>>

NextRace == \E p \in Seeders : HookCheck(p) \/ SeedCount(p) \/ SeedInsert(p)

SpecRace == InitRace /\ [][NextRace]_vars

----------------------------------------------------------------------------
(* The claims                                                               *)

\* the seed data as the glossary lists it: title, price (n / 10^k), category
Glossary ==
    <<[title |-> "AirSwift Runner", n |-> 12999, k |-> 2, category |-> "Running"],
      [title |-> "CourtPro 2", n |-> 99, k |-> 0, category |-> "Lifestyle"],
      [title |-> "TrailForce GTX", n |-> 1495, k |-> 1, category |-> "Trail"],
      [title |-> "Flex Studio", n |-> 119, k |-> 0, category |-> "Training"]>>

IsGlossary(docs) ==
    /\ Len(docs) = Len(Glossary)
    /\ \A i \in 1..Len(Glossary) :
          /\ docs[i]["title"] = [t |-> "str", n |-> 0, k |-> 0, s |-> <<Glossary[i].title>>]
          /\ docs[i]["price"] = [t |-> "float", n |-> Glossary[i].n, k |-> Glossary[i].k,
                                 s |-> <<>>]
          /\ docs[i]["category"] =
                 [t |-> "str", n |-> 0, k |-> 0, s |-> <<Glossary[i].category>>]

(* C1: with storage configured and requests served one after another, a    *)
(* seed call that returns and found the collection empty has stored exactly *)
(* the four sample records and reports seeded = True, count = 4; a seed     *)
(* call that finds at least one document stores nothing and, when it        *)
(* returns, reports seeded = False.                                         *)
C1_SeedOnce ==
    [][(req'.op = "seed" /\ db) =>
          /\ products # <<>> =>
                /\ products' = products
                /\ resp'.status = 200 => ~resp'.seeded /\ resp'.count = 0
          /\ (products = <<>> /\ resp'.status = 200) =>
                /\ resp'.seeded
                /\ resp'.count = 4
                /\ IsGlossary(products')]_vars

\* a first seed call stored the four samples (the hook had stored none), and
\* the seed call after it reported seeded = False over the same four records
C1_Witness ==
    /\ req.op = "seed"
    /\ resp.status = 200
    /\ ~resp.seeded
    /\ ~hook.seed_called
    /\ IsGlossary(products)

(* C2 as stated: after a create that returned, the id is a non-empty string *)
(* and a list call with no filter and the default limit has a record with   *)
(* that id and the input price as a float, whatever the collection held.    *)
Listed ==
    LET items == list_products(db, Store, PyNone, DefaultLimit, 0).resp.items
    IN  \E i \in 1..Len(items) :
           /\ "id" \in DOMAIN items[i]
           /\ items[i]["id"] = resp.id
           /\ items[i]["price"].t = "float"
           /\ items[i]["price"] = float(req.body["price"]).val

C2_Original ==
    (req.op = "create" /\ resp.status = 201) =>
        /\ resp.id.t = "str"
        /\ Len(resp.id.s) > 0
        /\ Listed

(* C2, amended: the same, provided the collection holds at most 50          *)
(* documents (the default limit) once the product is stored.                *)
C2_Amended ==
    (req.op = "create" /\ resp.status = 201) =>
        /\ resp.id.t = "str"
        /\ Len(resp.id.s) > 0
        /\ Len(products) <= DefaultLimit => Listed

\* a product with an integer price became the 50th document
C2_Witness ==
    /\ req.op = "create"
    /\ resp.status = 201
    /\ req.body["price"].t = "int"
    /\ Len(products) = DefaultLimit

FailsValidation(body) ==
    \/ \E key \in {"title", "price", "category"} : key \notin DOMAIN body
    \/ body["price"].n < 0

(* C3: a create request whose body has a negative price or lacks title,     *)
(* price or category is answered with the validation error, without a       *)
(* storage operation and with the collection unchanged, whether or not      *)
(* storage is configured.                                                   *)
C3_Rejected ==
    [][(req'.op = "create" /\ FailsValidation(req'.body)) =>
          /\ resp'.status = 422
          /\ resp'.ops = 0
          /\ products' = products
          /\ nextId' = nextId]_vars

\* a body with a negative price was rejected while the store held products
C3_Witness ==
    /\ req.op = "create"
    /\ resp.status = 422
    /\ "price" \in DOMAIN req.body
    /\ req.body["price"].n < 0
    /\ db
    /\ products # <<>>

OnlyCategory(c) ==
    \A i \in 1..Len(resp.items) :
        /\ "category" \in DOMAIN resp.items[i]
        /\ resp.items[i]["category"] = c
        /\ \E j \in 1..Len(products) :
              /\ products[j]["category"] = c
              /\ resp.items[i]["id"] = str(products[j]["_id"])

(* C4 as stated: a list call given a category c, the empty string          *)
(* included, returns only records whose stored category is c.               *)
C4_Original ==
    (req.op = "list" /\ resp.status = 200 /\ req.category # PyNone) =>
        OnlyCategory(req.category)

(* C4, amended: a list call given a non-empty category c returns only       *)
(* records whose stored category is c (an empty category is no filter).     *)
C4_Amended ==
    (req.op = "list" /\ resp.status = 200 /\ req.category # PyNone
        /\ Len(req.category.s) > 0) =>
        OnlyCategory(req.category)

\* a filtered list returned some records and left records of other categories out
C4_Witness ==
    /\ req.op = "list"
    /\ resp.status = 200
    /\ req.category # PyNone
    /\ Len(req.category.s) > 0
    /\ resp.items # <<>>
    /\ \E j \in 1..Len(products) : products[j]["category"] # req.category

(* C5: while db is None, list, seed and create with a valid body each       *)
(* answer 500 "Database not configured" without any storage operation, on   *)
(* every call; nothing is ever stored.                                      *)
C5_Unconfigured ==
    (~db /\ (req.op \in {"list", "seed"}
             \/ (req.op = "create" /\ ~FailsValidation(req.body)))) =>
        /\ resp.status = 500
        /\ resp.detail = "Database not configured"
        /\ resp.ops = 0
        /\ products = <<>>
        /\ nextId = 1

\* a valid create was refused because storage is unconfigured
C5_Witness ==
    /\ ~db
    /\ req.op = "create"
    /\ ~FailsValidation(req.body)
    /\ resp.status = 500

(* C6 as stated: with db None the diagnostics report is returned (no HTTP   *)
(* error) and its database field says "Not Available".                      *)
C6_Original ==
    (req.op = "test" /\ ~db) =>
        /\ resp.status = 200
        /\ resp.report.database.text = "Not Available"

(* C6, amended: the diagnostics endpoint always returns its report (status  *)
(* 200). With db None the database field reads "Available but not          *)
(* initialized" (the initial "Not Available" is overwritten), the           *)
(* connection status "Not Connected", and no collection is listed. When     *)
(* introspection throws, the database field carries the first 50 characters *)
(* of the error, no collection is listed, and the other fields are as on    *)
(* success.                                                                 *)
C6_Amended ==
    req.op = "test" =>
        /\ resp.status = 200
        /\ resp.report.backend = "Running"
        /\ resp.report.database_url \in {"Set", "Not Set"}
        /\ resp.report.database_name \in {"Set", "Not Set"}
        /\ ~db =>
              /\ resp.report.database = [text |-> "Available but not initialized",
                                         err |-> <<>>]
              /\ resp.report.connection_status = "Not Connected"
              /\ resp.report.collections = <<>>
        /\ (db /\ ~req.introspection_ok) =>
              /\ resp.report.database.text = "Connected but Error: "
              /\ Len(resp.report.database.err) \in 1..50
              /\ resp.report.connection_status = "Connected"
              /\ resp.report.collections = <<>>
        /\ (db /\ req.introspection_ok) =>
              /\ resp.report.database = [text |-> "Connected & Working", err |-> <<>>]
              /\ resp.report.connection_status = "Connected"
              /\ Len(resp.report.collections) <= 10

\* the diagnostics endpoint answered while storage is unconfigured
C6_Witness ==
    /\ req.op = "test"
    /\ ~db
    /\ resp.status = 200
    /\ resp.report.connection_status = "Not Connected"

\* what the claim says of the price and of the fields other than _id and id
SerializedRest(d, r) ==
    /\ "price" \in DOMAIN d =>
          /\ "price" \in DOMAIN r
          /\ r["price"] = IF float(d["price"]).ok THEN float(d["price"]).val
                          ELSE d["price"]
          /\ d["price"] = [t |-> "str", n |-> 0, k |-> 0, s |-> <<"1", "2", ".", "5">>] =>
                r["price"] = [t |-> "float", n |-> 125, k |-> 1, s |-> <<>>]
          /\ d["price"] = [t |-> "str", n |-> 0, k |-> 0, s |-> <<"a", "b", "c">>] =>
                r["price"] = d["price"]
          /\ d["price"] = [t |-> "int", n |-> 3, k |-> 0, s |-> <<>>] =>
                r["price"] = [t |-> "float", n |-> 3, k |-> 0, s |-> <<>>]
    /\ \A key \in DOMAIN d \ {"_id", "id", "price"} : key \in DOMAIN r /\ r[key] = d[key]
    /\ DOMAIN r \subseteq DOMAIN d \cup {"id"}

\* the _id entry is gone and id holds its string form
Renamed(d, r) ==
    /\ "_id" \notin DOMAIN r
    /\ "id" \in DOMAIN r
    /\ r["id"].t = "str"
    /\ r["id"] = str(d["_id"])
    /\ d["_id"] = [t |-> "oid", n |-> 26, k |-> 0, s |-> <<>>] =>
          r["id"].s = <<"1", "a">>

(* C7 as stated: an empty or absent record is returned unchanged; otherwise *)
(* _id is removed and id holds its string form (for a record that has an    *)
(* _id entry), price is its float value when coercible and the original     *)
(* when not, every other field is the input's, no error is raised and the   *)
(* input is not modified.                                                   *)
C7_Original ==
    [][pc = "call" =>
          /\ pc' = "returned"
          /\ arg' = arg
          /\ IF arg.none \/ DOMAIN arg.d = {} THEN ret' = arg
             ELSE /\ ~ret'.none
                  /\ "_id" \in DOMAIN arg.d => Renamed(arg.d, ret'.d)
                  /\ "_id" \notin DOMAIN arg.d =>
                        /\ "_id" \notin DOMAIN ret'.d
                        /\ "id" \in DOMAIN arg.d <=> "id" \in DOMAIN ret'.d
                        /\ "id" \in DOMAIN arg.d => ret'.d["id"] = arg.d["id"]
                  /\ SerializedRest(arg.d, ret'.d)]_vars

(* C7, amended: as stated, except that _id is renamed only when it is not   *)
(* None: a record whose _id is None keeps that entry and, like a record     *)
(* without _id, keeps its id field (if any) as it is.                       *)
C7_Amended ==
    [][pc = "call" =>
          /\ pc' = "returned"
          /\ arg' = arg
          /\ IF arg.none \/ DOMAIN arg.d = {} THEN ret' = arg
             ELSE /\ ~ret'.none
                  /\ ("_id" \in DOMAIN arg.d /\ arg.d["_id"].t # "none") =>
                        Renamed(arg.d, ret'.d)
                  /\ ("_id" \in DOMAIN arg.d /\ arg.d["_id"].t = "none") =>
                        /\ "_id" \in DOMAIN ret'.d
                        /\ ret'.d["_id"] = arg.d["_id"]
                  /\ ("_id" \notin DOMAIN arg.d \/ arg.d["_id"].t = "none") =>
                        /\ "_id" \in DOMAIN arg.d <=> "_id" \in DOMAIN ret'.d
                        /\ "id" \in DOMAIN arg.d <=> "id" \in DOMAIN ret'.d
                        /\ "id" \in DOMAIN arg.d => ret'.d["id"] = arg.d["id"]
                  /\ SerializedRest(arg.d, ret'.d)]_vars

\* a record with an ObjectId and the price "12.5" was serialized
C7_Witness ==
    /\ pc = "returned"
    /\ ~arg.none
    /\ "_id" \in DOMAIN arg.d
    /\ arg.d["_id"].t = "oid"
    /\ "price" \in DOMAIN arg.d
    /\ arg.d["price"].s = <<"1", "2", ".", "5">>
    /\ ret.d["price"].t = "float"
    /\ "id" \in DOMAIN ret.d

DistinctIds ==
    \A i, j \in 1..Len(products) :
        /\ "_id" \in DOMAIN products[i]
        /\ i # j => products[i]["_id"] # products[j]["_id"]
                    /\ str(products[i]["_id"]) # str(products[j]["_id"])

IsPrefix(old, new) == Len(old) <= Len(new) /\ SubSeq(new, 1, Len(old)) = old

(* C8: in every state reached by startup, list, create, seed and            *)
(* diagnostics the persisted products have pairwise distinct ids, and every *)
(* step leaves the documents already stored in place and unchanged: the     *)
(* operations only append.                                                  *)
C8_AppendOnly == [](DistinctIds) /\ [][IsPrefix(products, products')]_vars

\* the hook seeded the collection and two creates appended to it
C8_Witness ==
    /\ hook.seed_called
    /\ creates = 2
    /\ Len(products) = Len(Glossary) + 2

(* C9: the startup hook calls seed only when storage is configured and the  *)
(* collection is empty, and it always returns: whatever fails inside it is  *)
(* discarded, so the process goes on to serve and never crashes at startup. *)
C9_HookContained ==
    /\ [](pc # "crashed")
    /\ [](pc = "boot" => ENABLED Startup)
    /\ [][(pc = "boot" /\ pc' # "boot") =>
             /\ pc' = "serving"
             /\ hook'.ran
             /\ hook'.propagated = "none"
             /\ hook'.seed_called => db /\ products = <<>>
             /\ ~hook'.seed_called => products' = products
             /\ IsPrefix(products, products')]_vars

\* the third insert of the hook's seed call threw, and the process serves
C9_Witness ==
    /\ pc = "serving"
    /\ hook.seed_called
    /\ hook.caught = "StorageError"
    /\ Len(products) = 2

\* how many samples seed invocation p has stored so far
Stored(p) ==
    IF seeders[p].at \in {"insert", "done"} /\ seeders[p].i > 0
    THEN seeders[p].i - 1 ELSE 0

RECURSIVE StoredUpTo(_)
StoredUpTo(p) == IF p = 0 THEN 0 ELSE Stored(p) + StoredUpTo(p - 1)

Passed == {p \in Seeders : seeders[p].at = "insert" \/ seeders[p].resp.seeded}

(* C10: the emptiness check and the inserts of seed are separate steps.     *)
(* Every invocation that reports seeded = True saw count = 0, stored four   *)
(* samples and reports count = 4, and the collection holds what the         *)
(* invocations stored between them: four samples per invocation that passed *)
(* the check, so up to eight with two invocations (the witness).            *)
C10_RaceAccounting ==
    /\ \A p \in Seeders :
          /\ p \in Passed => seeders[p].existing = 0 /\ db
          /\ seeders[p].resp.seeded =>
                /\ seeders[p].resp.status = 200
                /\ seeders[p].resp.count = 4
                /\ Stored(p) = 4
    /\ Len(products) <= 1 \/ Len(products) = StoredUpTo(MaxSeeders)
    /\ Len(products) <= 4 * Cardinality(Passed) + 1

\* two invocations both saw an empty collection, both report seeded = True
\* with count = 4, and the collection holds eight sample records
C10_Witness ==
    \E p, q \in Seeders :
        /\ p # q
        /\ seeders[p].resp.seeded /\ seeders[p].resp.count = 4
        /\ seeders[q].resp.seeded /\ seeders[q].resp.count = 4
        /\ seeders[p].existing = 0 /\ seeders[q].existing = 0
        /\ Len(products) = 8
        /\ \A i \in 1..Len(Glossary) :
              Cardinality({j \in 1..Len(products) :
                              products[j]["title"].s = <<Glossary[i].title>>}) = 2

====
